---------------------------- MODULE Spec2Model ----------------------------
(***************************************************************************)
(* A model of daiquiri/__init__.py: the keyword-capturing logger adapter,  *)
(* the weak registry of named adapters behind getLogger, setup of the root *)
(* logger, and the per-logger level helpers.                               *)
(*                                                                         *)
(* Each component has its own specification over the shared variables:     *)
(*   Spec         getLogger called from concurrent threads                 *)
(*   SpecSeq      getLogger calls that do not overlap each other           *)
(*   SpecSetup    setup, once or repeatedly                                *)
(*   SpecLevels   set_default_log_levels, parse_and_set_default_log_levels *)
(*   SpecProcess  KeywordArgumentAdapter.process                           *)
(* A component that a specification does not exercise stays in its initial *)
(* state.                                                                  *)
(***************************************************************************)
EXTENDS Integers, Sequences, FiniteSets, TLC

(***************************************************************************)
(* Bounds of the model.                                                    *)
(***************************************************************************)
MaxThreads == 2
MaxAdapters == 3
MaxOutputs == 2
MaxPairs == 2

(***************************************************************************)
(* The state.                                                              *)
(***************************************************************************)
VARIABLES
  heap,        \* the Adapters constructed so far, by identity 1..Len(heap)
  loggers,     \* _LOGGERS: name -> the Adapter its weak reference yields
  pc,          \* where each thread stands in getLogger
  callName,    \* getLogger's `name` argument of the thread's running call
  callKwargs,  \* getLogger's `kwargs` of the thread's running call
  adapter,     \* getLogger's local variable `adapter` (a strong reference)
  held,        \* the Adapters each caller holds from earlier getLogger calls
  outcome,     \* how the thread's last getLogger call ended
  ret          \* the Adapter the thread's last getLogger call returned

VARIABLES
  rootHandlers,   \* logging.getLogger(None).handlers
  rootLevel,      \* the root logger's threshold
  excepthook,     \* sys.excepthook
  setupPc,        \* where the running setup call stands
  setupLevel,     \* setup's `level`
  setupOutputs,   \* setup's `outputs`
  toRemove,       \* what is left of the copy the removal loop iterates
  attachIdx,      \* the position of `for o in outputs`
  entryHandlers,  \* the root logger's handlers when setup was entered
  setupProgram,   \* setup's `program_name`
  repeated,       \* the running setup call repeats the level and outputs of
                  \* the call that returned just before it
  hookProgram,    \* the `program_name` the installed logging_excepthook closes over
  hookPc,         \* where the running call of sys.excepthook stands
  hookArg,        \* the exception sys.excepthook was last called with
  emitted         \* the records the last call of the hook logged, by logger

VARIABLES
  loggerLevel,    \* the threshold of each named platform logger
  lvPc,           \* where the running level-configuration call stands
  lvMode,         \* which entry point was called
  lvInput,        \* its list argument
  lvSep,          \* parse_and_set_default_log_levels' `separator`
  lvIdx,          \* the position of `for logger, level in ...`
  entryLevels,    \* the loggers' thresholds when the call was entered
  lvError         \* the ValueError the last level-configuration call raised

VARIABLES
  selfExtra,      \* the Adapter's bound fields, self.extra
  procPc,         \* where the running process call stands
  procMsg,        \* process's `msg`
  procKwargs,     \* process's `kwargs`, the dict object the caller passed
  procExtra,      \* process's local `extra`
  procRet,        \* what the last process call returned
  entryKwargs,    \* the content of `kwargs` when process was entered
  extraArg        \* the mapping the caller passed as `extra`, the caller's object

registryVars ==
  <<heap, loggers, pc, callName, callKwargs, adapter, held, outcome, ret>>

hookVars == <<hookProgram, hookPc, hookArg, emitted>>

setupVars ==
  <<rootHandlers, rootLevel, excepthook, setupPc, setupLevel, setupOutputs,
    toRemove, attachIdx, entryHandlers, setupProgram, repeated, hookVars>>

levelsVars ==
  <<loggerLevel, lvPc, lvMode, lvInput, lvSep, lvIdx, entryLevels, lvError>>

processVars ==
  <<selfExtra, procPc, procMsg, procKwargs, procExtra, procRet, entryKwargs,
    extraArg>>

vars == <<registryVars, setupVars, levelsVars, processVars>>

(***************************************************************************)
(* Mappings (Python dicts) are functions whose domain is the set of keys.  *)
(***************************************************************************)
EmptyMap == << >>

\* (an update that keeps what is already there, as dict.setdefault would)
UpdateKeepExisting(m1, m2) ==
  [k \in (DOMAIN m1) \cup (DOMAIN m2) |-> IF k \in DOMAIN m1 THEN m1[k] ELSE m2[k]]

\* dict.update / repeated item assignment: entries of m2 win over those of m1
Update(m1, m2) ==
  [k \in (DOMAIN m1) \cup (DOMAIN m2) |-> IF k \in DOMAIN m2 THEN m2[k] ELSE m1[k]]

\* dict without some keys (dict.pop applied to each of them)
Without(m, ks) == [k \in (DOMAIN m) \ ks |-> m[k]]

Values == {"v1", "v2"}

(***************************************************************************)
(* The logger registry: _LOGGERS and getLogger.                            *)
(***************************************************************************)
Threads == 1..MaxThreads
Names == {"svc", "db"}

\* keyword arguments a caller may give to getLogger: they become the bound fields
BoundFieldChoices == {EmptyMap, [a |-> "v1"]}

\* what a weak reference yields once its referent is gone, and an unset local
NoAdapter == 0

\* what is left of an Adapter once it is reclaimed: its identity, and (for
\* reference only) the name it was made for
Reclaimed(n) == [logger |-> n, extra |-> EmptyMap, live |-> FALSE]

AdapterIds == 1..Len(heap)

Live(a) == a \in AdapterIds /\ heap[a].live

\* (a registry that holds its Adapters strongly, as a plain dict would)
ReferencedOrRegistered(a) ==
  \/ \E t \in Threads : adapter[t] = a \/ a \in held[t]
  \/ \E n \in Names : loggers[n] = a

\* a strong reference to Adapter a exists: a running call's local, or a caller.
\* _LOGGERS is a WeakValueDictionary: its entries do not count.
Referenced(a) ==
  \E t \in Threads : adapter[t] = a \/ a \in held[t]

\* (a membership test that never finds the name)
InLoggersNever(n) == FALSE

\* `name in _LOGGERS` (line 64): the entry's weak reference still yields an Adapter
InLoggers(n) == loggers[n] # NoAdapter

\* `_LOGGERS[name]` (line 69) finds an entry; otherwise it raises KeyError
HasItem(n) == loggers[n] # NoAdapter

RegistryInit ==
  /\ heap = << >>
  /\ loggers = [n \in Names |-> NoAdapter]
  /\ pc = [t \in Threads |-> "idle"]
  /\ callName = [t \in Threads |-> "svc"]
  /\ callKwargs = [t \in Threads |-> EmptyMap]
  /\ adapter = [t \in Threads |-> NoAdapter]
  /\ held = [t \in Threads |-> {}]
  /\ outcome = [t \in Threads |-> "none"]
  /\ ret = [t \in Threads |-> NoAdapter]

\* a thread enters getLogger(n, **kw)
GetLoggerCall(t, n, kw) ==
  /\ pc[t] = "idle"
  /\ pc' = [pc EXCEPT ![t] = "check"]
  /\ callName' = [callName EXCEPT ![t] = n]
  /\ callKwargs' = [callKwargs EXCEPT ![t] = kw]
  /\ outcome' = [outcome EXCEPT ![t] = "none"]
  /\ ret' = [ret EXCEPT ![t] = NoAdapter]
  /\ UNCHANGED <<heap, loggers, adapter, held>>
  /\ UNCHANGED <<setupVars, levelsVars, processVars>>

\* (a call that finds the name registered binding its own kwargs to the
\* registered Adapter)
CheckRebinding(t) ==
  /\ pc[t] = "check"
  /\ pc' = [pc EXCEPT ![t] = IF InLoggers(callName[t]) THEN "read" ELSE "construct"]
  /\ heap' = IF InLoggers(callName[t])
               THEN [heap EXCEPT ![loggers[callName[t]]].extra = callKwargs[t]]
               ELSE heap
  /\ UNCHANGED <<loggers, callName, callKwargs, adapter, held, outcome, ret>>
  /\ UNCHANGED <<setupVars, levelsVars, processVars>>

\* line 64: if name not in _LOGGERS
Check(t) ==
  /\ pc[t] = "check"
  /\ pc' = [pc EXCEPT ![t] = IF InLoggers(callName[t]) THEN "read" ELSE "construct"]
  /\ UNCHANGED <<heap, loggers, callName, callKwargs, adapter, held, outcome, ret>>
  /\ UNCHANGED <<setupVars, levelsVars, processVars>>

\* line 67: adapter = KeywordArgumentAdapter(logging.getLogger(name), kwargs)
Construct(t) ==
  /\ pc[t] = "construct"
  /\ Len(heap) < MaxAdapters
  /\ heap' = Append(heap, [logger |-> callName[t], extra |-> callKwargs[t], live |-> TRUE])
  /\ adapter' = [adapter EXCEPT ![t] = Len(heap) + 1]
  /\ pc' = [pc EXCEPT ![t] = "register"]
  /\ UNCHANGED <<loggers, callName, callKwargs, held, outcome, ret>>
  /\ UNCHANGED <<setupVars, levelsVars, processVars>>

\* line 68: _LOGGERS[name] = adapter
Register(t) ==
  /\ pc[t] = "register"
  /\ loggers' = [loggers EXCEPT ![callName[t]] = adapter[t]]
  /\ pc' = [pc EXCEPT ![t] = "read"]
  /\ UNCHANGED <<heap, callName, callKwargs, adapter, held, outcome, ret>>
  /\ UNCHANGED <<setupVars, levelsVars, processVars>>

\* line 69: return _LOGGERS[name]; WeakValueDictionary.__getitem__ raises
\* KeyError when the entry is gone. Either way the call's locals are released.
Read(t) ==
  /\ pc[t] = "read"
  /\ IF HasItem(callName[t])
       THEN /\ ret' = [ret EXCEPT ![t] = loggers[callName[t]]]
            /\ held' = [held EXCEPT ![t] = @ \cup {loggers[callName[t]]}]
            /\ outcome' = [outcome EXCEPT ![t] = "returned"]
       ELSE /\ outcome' = [outcome EXCEPT ![t] = "KeyError"]
            /\ UNCHANGED <<ret, held>>
  /\ adapter' = [adapter EXCEPT ![t] = NoAdapter]
  /\ pc' = [pc EXCEPT ![t] = "idle"]
  /\ callName' = [callName EXCEPT ![t] = "svc"]
  /\ callKwargs' = [callKwargs EXCEPT ![t] = EmptyMap]
  /\ UNCHANGED <<heap, loggers>>
  /\ UNCHANGED <<setupVars, levelsVars, processVars>>

\* a caller that is not inside getLogger lets go of an Adapter it holds
Drop(t, a) ==
  /\ pc[t] = "idle"
  /\ a \in held[t]
  /\ held' = [held EXCEPT ![t] = @ \ {a}]
  /\ UNCHANGED <<heap, loggers, pc, callName, callKwargs, adapter, outcome, ret>>
  /\ UNCHANGED <<setupVars, levelsVars, processVars>>

\* the runtime reclaims an Adapter nothing refers to strongly; the weak
\* reference in _LOGGERS, if it is still the entry of its name, goes with it
Reclaim(a) ==
  /\ Live(a)
  /\ ~Referenced(a)
  /\ heap' = [heap EXCEPT ![a] = Reclaimed(heap[a].logger)]
  /\ loggers' = [n \in Names |-> IF loggers[n] = a THEN NoAdapter ELSE loggers[n]]
  /\ UNCHANGED <<pc, callName, callKwargs, adapter, held, outcome, ret>>
  /\ UNCHANGED <<setupVars, levelsVars, processVars>>

(***************************************************************************)
(* setup: the root logger's handlers and threshold, and sys.excepthook.    *)
(***************************************************************************)
\* logging.WARNING, the root logger's threshold before anything sets it and
\* the default of setup's `level`
WARNING == 30

SetupLevels == {10, WARNING, 40}

\* the outputs a caller may list, and the handlers each one's add_to_logger
\* installs on success (daiquiri.output is not part of this file)
Outputs == {"sinkA", "sinkB"}

HandlersOf(o) == IF o = "sinkA" THEN <<"hA">> ELSE <<"hB1", "hB2">>

\* the handler of line 85, and handlers the application attached on its own
FallbackHandler == "stderr_fallback"

PreExistingHandlers == {<< >>, <<"app1">>, <<"app1", "app2">>}

Range(s) == {s[i] : i \in 1..Len(s)}

SeqsUpTo(S, n) == UNION {[1..k -> S] : k \in 0..n}

\* (root_logger.handlers.insert(0, handler))
AddHandlerFront(hs, h) == IF h \in Range(hs) THEN hs ELSE <<h>> \o hs

\* Logger.addHandler: appends unless the handler is already attached
AddHandler(hs, h) == IF h \in Range(hs) THEN hs ELSE Append(hs, h)

RECURSIVE AddHandlers(_, _)
AddHandlers(hs, new) ==
  IF new = << >> THEN hs ELSE AddHandlers(AddHandler(hs, Head(new)), Tail(new))

\* Logger.removeHandler
RemoveHandler(hs, h) == SelectSeq(hs, LAMBDA x : x # h)

\* (only the first handler removed)
HandlersSnapshotFirstOnly(hs) == IF hs = << >> THEN << >> ELSE <<hs[1]>>

\* (iterating root_logger.handlers itself while removing from it: every
\* other handler is skipped)
HandlersSnapshotSkipping(hs) == [i \in 1..((Len(hs) + 1) \div 2) |-> hs[2 * i - 1]]

\* line 94: list(root_logger.handlers), the copy the removal loop iterates
HandlersSnapshot(hs) == hs

\* setup's program_name: None, the default, or a name
None == "<None>"
ProgramNames == {None, "prog"}

\* the uncaught exceptions sys.excepthook is called with: exc_type, value, tb
Exceptions ==
  {[type |-> "ValueError", value |-> "bad", tb |-> <<"frame1">>],
   [type |-> "KeyError", value |-> "k", tb |-> <<"frame1", "frame2">>]}

\* line 88: .critical(...) logs at logging.CRITICAL
CRITICAL == 50

\* (the hook logging through the root logger whatever program_name is)
GetLoggerRoot(name) == "root"

\* line 88: logging.getLogger(program_name); None names the root logger
GetLogger(name) == IF name = None THEN "root" ELSE name

\* line 89: "".join(traceback.format_exception(exc_type, value, tb)): the
\* header, the frames of the traceback, then the type and the value
FormatException(exc) ==
  <<"Traceback (most recent call last):">> \o exc.tb \o <<exc.type, ": ", exc.value>>

SetupInit(hs) ==
  /\ rootHandlers = hs
  /\ rootLevel = WARNING
  /\ excepthook = "sys.__excepthook__"
  /\ setupPc = "idle"
  /\ setupLevel = WARNING
  /\ setupOutputs = << >>
  /\ toRemove = << >>
  /\ attachIdx = 1
  /\ entryHandlers = hs
  /\ setupProgram = None
  /\ repeated = FALSE
  /\ hookProgram = None
  /\ hookPc = "idle"
  /\ hookArg = CHOOSE exc \in Exceptions : TRUE
  /\ emitted = << >>

\* setup(level, outputs, program_name) is entered; a call follows an earlier
\* one only after that one has returned or raised, and not while the hook runs
SetupCall(level, outputs, program_name) ==
  /\ setupPc \in {"idle", "done", "failed"}
  /\ hookPc # "critical"
  /\ setupPc' = "bootstrap"
  /\ setupLevel' = level
  /\ setupOutputs' = outputs
  /\ setupProgram' = program_name
  /\ repeated' = (setupPc = "done" /\ level = setupLevel /\ outputs = setupOutputs)
  /\ entryHandlers' = rootHandlers
  /\ toRemove' = << >>
  /\ attachIdx' = 1
  /\ UNCHANGED <<rootHandlers, rootLevel, excepthook, hookVars>>
  /\ UNCHANGED <<registryVars, levelsVars, processVars>>

\* (the fallback handler never being attached)
BootstrapWithoutFallback ==
  /\ setupPc = "bootstrap"
  /\ setupPc' = "hook"
  /\ UNCHANGED <<rootHandlers, rootLevel, excepthook, setupLevel, setupOutputs,
                 toRemove, attachIdx, entryHandlers>>
  /\ UNCHANGED <<setupProgram, repeated, hookVars>>
  /\ UNCHANGED <<registryVars, levelsVars, processVars>>

\* lines 83-85: if not root_logger.handlers: addHandler(StreamHandler())
Bootstrap ==
  /\ setupPc = "bootstrap"
  /\ rootHandlers' = IF rootHandlers = << >>
                       THEN AddHandler(rootHandlers, FallbackHandler)
                       ELSE rootHandlers
  /\ setupPc' = "hook"
  /\ UNCHANGED <<rootLevel, excepthook, setupLevel, setupOutputs, toRemove,
                 attachIdx, entryHandlers>>
  /\ UNCHANGED <<setupProgram, repeated, hookVars>>
  /\ UNCHANGED <<registryVars, levelsVars, processVars>>

\* lines 87-91: sys.excepthook = logging_excepthook
InstallHook ==
  /\ setupPc = "hook"
  /\ excepthook' = "logging_excepthook"
  /\ hookProgram' = setupProgram
  /\ setupPc' = "reset"
  /\ UNCHANGED <<rootHandlers, rootLevel, setupLevel, setupOutputs, toRemove,
                 attachIdx, entryHandlers>>
  /\ UNCHANGED <<setupProgram, repeated, hookPc, hookArg, emitted>>
  /\ UNCHANGED <<registryVars, levelsVars, processVars>>

\* line 94: the removal loop starts on a copy of the handler list
SnapshotHandlers ==
  /\ setupPc = "reset"
  /\ toRemove' = HandlersSnapshot(rootHandlers)
  /\ setupPc' = "remove"
  /\ UNCHANGED <<rootHandlers, rootLevel, excepthook, setupLevel, setupOutputs,
                 attachIdx, entryHandlers>>
  /\ UNCHANGED <<setupProgram, repeated, hookVars>>
  /\ UNCHANGED <<registryVars, levelsVars, processVars>>

\* line 95: root_logger.removeHandler(handler), once per handler of the copy
RemoveNext ==
  /\ setupPc = "remove"
  /\ toRemove # << >>
  /\ rootHandlers' = RemoveHandler(rootHandlers, Head(toRemove))
  /\ toRemove' = Tail(toRemove)
  /\ UNCHANGED <<rootLevel, excepthook, setupPc, setupLevel, setupOutputs,
                 attachIdx, entryHandlers>>
  /\ UNCHANGED <<setupProgram, repeated, hookVars>>
  /\ UNCHANGED <<registryVars, levelsVars, processVars>>

\* the removal loop is over
RemoveDone ==
  /\ setupPc = "remove"
  /\ toRemove = << >>
  /\ setupPc' = "attach"
  /\ UNCHANGED <<rootHandlers, rootLevel, excepthook, setupLevel, setupOutputs,
                 toRemove, attachIdx, entryHandlers>>
  /\ UNCHANGED <<setupProgram, repeated, hookVars>>
  /\ UNCHANGED <<registryVars, levelsVars, processVars>>

\* line 99: o.add_to_logger(root_logger) installs the output's handlers
AttachOk ==
  /\ setupPc = "attach"
  /\ attachIdx <= Len(setupOutputs)
  /\ rootHandlers' = AddHandlers(rootHandlers, HandlersOf(setupOutputs[attachIdx]))
  /\ attachIdx' = attachIdx + 1
  /\ UNCHANGED <<rootLevel, excepthook, setupPc, setupLevel, setupOutputs,
                 toRemove, entryHandlers>>
  /\ UNCHANGED <<setupProgram, repeated, hookVars>>
  /\ UNCHANGED <<registryVars, levelsVars, processVars>>

\* line 99: o.add_to_logger(root_logger) raises; nothing in setup catches it
AttachFail ==
  /\ setupPc = "attach"
  /\ attachIdx <= Len(setupOutputs)
  /\ setupPc' = "failed"
  /\ UNCHANGED <<rootHandlers, rootLevel, excepthook, setupLevel, setupOutputs,
                 toRemove, attachIdx, entryHandlers>>
  /\ UNCHANGED <<setupProgram, repeated, hookVars>>
  /\ UNCHANGED <<registryVars, levelsVars, processVars>>

\* line 101: root_logger.setLevel(level), and setup returns
SetLevel ==
  /\ setupPc = "attach"
  /\ attachIdx > Len(setupOutputs)
  /\ rootLevel' = setupLevel
  /\ setupPc' = "done"
  /\ UNCHANGED <<rootHandlers, excepthook, setupLevel, setupOutputs, toRemove,
                 attachIdx, entryHandlers>>
  /\ UNCHANGED <<setupProgram, repeated, hookVars>>
  /\ UNCHANGED <<registryVars, levelsVars, processVars>>

\* the interpreter calls sys.excepthook(exc_type, value, tb) for an exception
\* nothing caught, a failed setup's among them; setup is not running then
HookCall(exc) ==
  /\ excepthook = "logging_excepthook"
  /\ setupPc \in {"done", "failed"}
  /\ hookPc # "critical"
  /\ hookArg' = exc
  /\ emitted' = << >>
  /\ hookPc' = "critical"
  /\ UNCHANGED <<rootHandlers, rootLevel, excepthook, setupPc, setupLevel,
                 setupOutputs, toRemove, attachIdx, entryHandlers, setupProgram,
                 repeated, hookProgram>>
  /\ UNCHANGED <<registryVars, levelsVars, processVars>>

\* lines 88-89: the logger of program_name logs the formatted exception at
\* CRITICAL, and logging_excepthook returns
HookCritical ==
  /\ hookPc = "critical"
  /\ emitted' = Append(emitted, [logger |-> GetLogger(hookProgram),
                                  level |-> CRITICAL,
                                  msg |-> FormatException(hookArg)])
  /\ hookPc' = "returned"
  /\ UNCHANGED <<rootHandlers, rootLevel, excepthook, setupPc, setupLevel,
                 setupOutputs, toRemove, attachIdx, entryHandlers, setupProgram,
                 repeated, hookProgram, hookArg>>
  /\ UNCHANGED <<registryVars, levelsVars, processVars>>

\* lines 88-89: .critical(...) raises, as when a handler of an output fails
\* to write; logging_excepthook has no try, so the exception leaves the hook
HookCriticalRaises ==
  /\ hookPc = "critical"
  /\ hookPc' = "raised"
  /\ UNCHANGED <<rootHandlers, rootLevel, excepthook, setupPc, setupLevel,
                 setupOutputs, toRemove, attachIdx, entryHandlers, setupProgram,
                 repeated, hookProgram, hookArg, emitted>>
  /\ UNCHANGED <<registryVars, levelsVars, processVars>>

(***************************************************************************)
(* Level configuration: set_default_log_levels and                         *)
(* parse_and_set_default_log_levels.  A Python str is the sequence of its  *)
(* characters; a level is a str, [str |-> s], or an int, [int |-> n].      *)
(***************************************************************************)
StrVal(s) == [str |-> s]
IntVal(n) == [int |-> n]

\* isinstance(level, str)
IsStr(v) == "str" \in DOMAIN v

LowerToUpper ==
  [a |-> "A", b |-> "B", c |-> "C", d |-> "D", e |-> "E", f |-> "F", g |-> "G",
   h |-> "H", i |-> "I", j |-> "J", k |-> "K", l |-> "L", m |-> "M", n |-> "N",
   o |-> "O", p |-> "P", q |-> "Q", r |-> "R", s |-> "S", t |-> "T", u |-> "U",
   v |-> "V", w |-> "W", x |-> "X", y |-> "Y", z |-> "Z"]

\* (a level text applied as it was given)
UpperOmitted(s) == s

\* str.upper
Upper(s) ==
  [i \in 1..Len(s) |-> IF s[i] \in DOMAIN LowerToUpper THEN LowerToUpper[s[i]] ELSE s[i]]

\* the index at which the first occurrence of sep in s starts, 0 when there is none
FirstOccurrence(s, sep) ==
  LET at == {i \in 1..Len(s) : i + Len(sep) - 1 <= Len(s)
                               /\ SubSeq(s, i, i + Len(sep) - 1) = sep}
  IN  IF at = {} THEN 0 ELSE CHOOSE i \in at : \A j \in at : i <= j

\* (pair.rsplit(separator, 1): cut at the last separator)
SplitAtLast(s, sep) ==
  LET at == {i \in 1..Len(s) : i + Len(sep) - 1 <= Len(s)
                               /\ SubSeq(s, i, i + Len(sep) - 1) = sep}
      i == IF at = {} THEN 0 ELSE CHOOSE i \in at : \A j \in at : j <= i
  IN  IF i = 0 THEN <<s>>
      ELSE <<SubSeq(s, 1, i - 1), SubSeq(s, i + Len(sep), Len(s))>>

\* pair.split(separator, 1): at most two parts, cut at the first separator
Split(s, sep) ==
  LET i == FirstOccurrence(s, sep)
  IN  IF i = 0 THEN <<s>>
      ELSE <<SubSeq(s, 1, i - 1), SubSeq(s, i + Len(sep), Len(s))>>

\* an item of the generator of lines 111-112: the parts of one string, the
\* second of them (when there is one) a level given as text
ParseItem(s, sep) ==
  LET parts == Split(s, sep)
  IN  IF Len(parts) = 2 THEN <<parts[1], StrVal(parts[2])>> ELSE <<parts[1]>>

\* logging's table of level names
LevelTable ==
  { [name |-> <<"C", "R", "I", "T", "I", "C", "A", "L">>, level |-> 50],
    [name |-> <<"F", "A", "T", "A", "L">>, level |-> 50],
    [name |-> <<"E", "R", "R", "O", "R">>, level |-> 40],
    [name |-> <<"W", "A", "R", "N">>, level |-> 30],
    [name |-> <<"W", "A", "R", "N", "I", "N", "G">>, level |-> 30],
    [name |-> <<"I", "N", "F", "O">>, level |-> 20],
    [name |-> <<"D", "E", "B", "U", "G">>, level |-> 10],
    [name |-> <<"N", "O", "T", "S", "E", "T">>, level |-> 0] }

\* Logger.setLevel accepts an int, or a str that is a level name
LevelAccepted(v) ==
  IF IsStr(v) THEN \E e \in LevelTable : e.name = v.str ELSE TRUE

\* the threshold Logger.setLevel stores for an accepted level
LevelNumber(v) ==
  IF IsStr(v) THEN (CHOOSE e \in LevelTable : e.name = v.str).level ELSE v.int

LoggerNames == {<<"a">>, <<"b">>}

Separators == {<<"=">>, <<":">>}

\* the strings a caller may pass to parse_and_set_default_log_levels
StringPool ==
  { <<"a", "=", "I", "N", "F", "O">>,
    <<"a", "=", "d", "e", "b", "u", "g">>,
    <<"b", "=", "E", "r", "r", "o", "r">>,
    <<"a", "b">>,
    <<"b", ":", "I", "N", "F", "O">>,
    <<"a", "=", "b", "=", "I", "N", "F", "O">> }

\* the (logger name, level) pairs a caller may pass to set_default_log_levels
PairPool ==
  { <<<<"a">>, IntVal(10)>>, <<<<"a">>, StrVal(<<"d", "e", "b", "u", "g">>)>>,
    <<<<"a">>, StrVal(<<"D", "E", "B", "U", "G">>)>>, <<<<"b">>, StrVal(<<"E", "r", "r", "o", "r">>)>>,
    <<<<"b">>, IntVal(15)>>, <<<<"a">>, StrVal(<<"b", "o", "g", "u", "s">>)>> }

\* no ValueError; the one of unpacking an item that has not two parts; the
\* one of Logger.setLevel, which quotes the text it was given
NoError == [kind |-> "none", text |-> << >>]
UnpackError == [kind |-> "unpack", text |-> << >>]
UnknownLevel(text) == [kind |-> "unknown level", text |-> text]

LevelsInit ==
  /\ lvError = NoError
  /\ loggerLevel = [n \in LoggerNames |-> 0]
  /\ lvPc = "idle"
  /\ lvMode = "pairs"
  /\ lvInput = << >>
  /\ lvSep = <<"=">>
  /\ lvIdx = 1
  /\ entryLevels = [n \in LoggerNames |-> 0]

\* lines 104-112: parse_and_set_default_log_levels(strings, separator) hands
\* set_default_log_levels a generator; nothing is split yet
ParseAndSetCall(strings, sep) ==
  /\ lvPc \in {"idle", "done", "failed"}
  /\ lvPc' = "iter"
  /\ lvMode' = "strings"
  /\ lvInput' = strings
  /\ lvSep' = sep
  /\ lvIdx' = 1
  /\ entryLevels' = loggerLevel
  /\ lvError' = NoError
  /\ UNCHANGED loggerLevel
  /\ UNCHANGED <<registryVars, setupVars, processVars>>

\* line 115: set_default_log_levels(pairs)
SetLevelsCall(pairs) ==
  /\ lvPc \in {"idle", "done", "failed"}
  /\ lvPc' = "iter"
  /\ lvMode' = "pairs"
  /\ lvInput' = pairs
  /\ lvSep' = <<"=">>
  /\ lvIdx' = 1
  /\ entryLevels' = loggerLevel
  /\ lvError' = NoError
  /\ UNCHANGED loggerLevel
  /\ UNCHANGED <<registryVars, setupVars, processVars>>

\* the item the loop of line 120 draws at position i
ItemAt(i) ==
  IF lvMode = "strings" THEN ParseItem(lvInput[i], lvSep) ELSE lvInput[i]

\* lines 121-122: a level given as text is upper-cased
Normalised(level) == IF IsStr(level) THEN StrVal(Upper(level.str)) ELSE level

\* lines 120-123, one turn of the loop: the item is unpacked into
\* (logger, level), the level normalised and set.  Unpacking an item that
\* has not two parts raises ValueError, and so does setLevel for a text that
\* is no level name; nothing catches either.
LevelsStep ==
  /\ lvPc = "iter"
  /\ lvIdx <= Len(lvInput)
  /\ LET item == ItemAt(lvIdx)
     IN  IF Len(item) = 2 /\ LevelAccepted(Normalised(item[2]))
           THEN /\ loggerLevel' =
                     [loggerLevel EXCEPT ![item[1]] = LevelNumber(Normalised(item[2]))]
                /\ lvIdx' = lvIdx + 1
                /\ UNCHANGED <<lvPc, lvError>>
           ELSE /\ lvPc' = "failed"
                /\ lvError' = IF Len(item) = 2
                                THEN UnknownLevel(Normalised(item[2]).str)
                                ELSE UnpackError
                /\ UNCHANGED <<loggerLevel, lvIdx>>
  /\ UNCHANGED <<lvMode, lvInput, lvSep, entryLevels>>
  /\ UNCHANGED <<registryVars, setupVars, processVars>>

\* the loop is over and the call returns
LevelsReturn ==
  /\ lvPc = "iter"
  /\ lvIdx > Len(lvInput)
  /\ lvPc' = "done"
  /\ UNCHANGED <<loggerLevel, lvMode, lvInput, lvSep, lvIdx, entryLevels,
                 lvError>>
  /\ UNCHANGED <<registryVars, setupVars, processVars>>

\* lines 120-123 as a function: what set_default_log_levels, given the list
\* `pairs` of (logger, level) pairs and run from its i-th pair on, makes of
\* the thresholds `levels`, and how it ends
RECURSIVE SetLevelsFrom(_, _, _)
SetLevelsFrom(levels, pairs, i) ==
  IF i > Len(pairs) THEN [pc |-> "done", levels |-> levels, error |-> NoError]
  ELSE LET level == Normalised(pairs[i][2])
       IN  IF LevelAccepted(level)
             THEN SetLevelsFrom([levels EXCEPT ![pairs[i][1]] = LevelNumber(level)],
                                pairs, i + 1)
             ELSE [pc |-> "failed", levels |-> levels,
                   error |-> UnknownLevel(level.str)]

(***************************************************************************)
(* KeywordArgumentAdapter.process.                                         *)
(***************************************************************************)
\* keys of bound fields, of a caller's `extra` mapping and of keyword arguments
FieldKeys == {"a", "exc_info", "_daiquiri_extra"}

Messages == {"m1", "m2"}

\* the values a key may be given: what a caller stores under the private key
\* never survives line 49, so one value stands for all
ValuesOf(k) == IF k = "_daiquiri_extra" THEN {"v1"} ELSE Values

\* the mappings with keys among FieldKeys
Maps ==
  UNION {{m \in [ks -> Values] : \A k \in ks : m[k] \in ValuesOf(k)} :
           ks \in SUBSET FieldKeys}

\* d[k] = v
WithItem(m, k, v) == [x \in (DOMAIN m) \cup {k} |-> IF x = k THEN v ELSE m[x]]

\* the keyword arguments of a log call: fields, with or without `extra`
KwargsChoices ==
  Maps \cup {WithItem(rest, "extra", e) : rest \in Maps, e \in Maps}

\* the value line 49 stores: the mapping `extra` itself
SelfRef == "<extra itself>"

\* (a loop that moves every keyword, exc_info too)
MovableKeysAll(kw) == DOMAIN kw

\* (a loop that moves no keyword)
MovableKeysNone(kw) == {}

\* lines 45-47: the keys the loop moves, all of kwargs' but exc_info
MovableKeys(kw) == (DOMAIN kw) \ {"exc_info"}

ProcessInit(bound) ==
  /\ selfExtra = bound
  /\ procPc = "idle"
  /\ procMsg = "m1"
  /\ procKwargs = EmptyMap
  /\ procExtra = EmptyMap
  /\ procRet = [msg |-> "m1", kwargs |-> EmptyMap]
  /\ entryKwargs = EmptyMap
  /\ extraArg = EmptyMap

\* process(msg, kwargs) is entered
ProcessCall(msg, kw) ==
  /\ procPc \in {"idle", "returned"}
  /\ procPc' = "copy"
  /\ procMsg' = msg
  /\ procKwargs' = kw
  /\ entryKwargs' = kw
  /\ extraArg' = IF "extra" \in DOMAIN kw THEN kw["extra"] ELSE EmptyMap
  /\ procExtra' = EmptyMap
  /\ procRet' = [msg |-> "m1", kwargs |-> EmptyMap]
  /\ UNCHANGED selfExtra
  /\ UNCHANGED <<registryVars, setupVars, levelsVars>>

\* line 40: extra = self.extra.copy()
ProcCopy ==
  /\ procPc = "copy"
  /\ procExtra' = selfExtra
  /\ procPc' = "pop"
  /\ UNCHANGED <<selfExtra, extraArg, procMsg, procKwargs, procRet, entryKwargs>>
  /\ UNCHANGED <<registryVars, setupVars, levelsVars>>

\* (the bound fields written into the caller's `extra` mapping, which then
\* serves as the merged mapping)
ProcPopExtraIntoCaller ==
  /\ procPc = "pop"
  /\ IF "extra" \in DOMAIN procKwargs
       THEN /\ procExtra' = Update(procExtra, procKwargs["extra"])
            /\ extraArg' = Update(procExtra, procKwargs["extra"])
            /\ procKwargs' = Without(procKwargs, {"extra"})
       ELSE UNCHANGED <<procExtra, procKwargs, extraArg>>
  /\ procPc' = "move"
  /\ UNCHANGED <<selfExtra, procMsg, procRet, entryKwargs>>
  /\ UNCHANGED <<registryVars, setupVars, levelsVars>>

\* (line 49 left out)
ProcNestSkipped ==
  /\ procPc = "nest"
  /\ procPc' = "set"
  /\ UNCHANGED <<selfExtra, extraArg, procMsg, procKwargs, procExtra, procRet,
                 entryKwargs>>
  /\ UNCHANGED <<registryVars, setupVars, levelsVars>>

\* lines 41-42: if 'extra' in kwargs: extra.update(kwargs.pop('extra'))
ProcPopExtra ==
  /\ procPc = "pop"
  /\ IF "extra" \in DOMAIN procKwargs
       THEN /\ procExtra' = Update(procExtra, procKwargs["extra"])
            /\ procKwargs' = Without(procKwargs, {"extra"})
       ELSE UNCHANGED <<procExtra, procKwargs>>
  /\ procPc' = "move"
  /\ UNCHANGED <<selfExtra, extraArg, procMsg, procRet, entryKwargs>>
  /\ UNCHANGED <<registryVars, setupVars, levelsVars>>

\* lines 45-48: for every key but exc_info, extra[name] = kwargs.pop(name)
ProcMove ==
  /\ procPc = "move"
  /\ procExtra' = Update(procExtra, [k \in MovableKeys(procKwargs) |-> procKwargs[k]])
  /\ procKwargs' = Without(procKwargs, MovableKeys(procKwargs))
  /\ procPc' = "nest"
  /\ UNCHANGED <<selfExtra, extraArg, procMsg, procRet, entryKwargs>>
  /\ UNCHANGED <<registryVars, setupVars, levelsVars>>

\* line 49: extra['_daiquiri_extra'] = extra
ProcNest ==
  /\ procPc = "nest"
  /\ procExtra' = WithItem(procExtra, "_daiquiri_extra", SelfRef)
  /\ procPc' = "set"
  /\ UNCHANGED <<selfExtra, extraArg, procMsg, procKwargs, procRet, entryKwargs>>
  /\ UNCHANGED <<registryVars, setupVars, levelsVars>>

\* line 50: kwargs['extra'] = extra
ProcSetExtra ==
  /\ procPc = "set"
  /\ procKwargs' = WithItem(procKwargs, "extra", procExtra)
  /\ procPc' = "return"
  /\ UNCHANGED <<selfExtra, extraArg, procMsg, procExtra, procRet, entryKwargs>>
  /\ UNCHANGED <<registryVars, setupVars, levelsVars>>

\* line 51: return msg, kwargs
ProcReturn ==
  /\ procPc = "return"
  /\ procRet' = [msg |-> procMsg, kwargs |-> procKwargs]
  /\ procPc' = "returned"
  /\ UNCHANGED <<selfExtra, extraArg, procMsg, procKwargs, procExtra, entryKwargs>>
  /\ UNCHANGED <<registryVars, setupVars, levelsVars>>

(***************************************************************************)
(* The specifications.                                                     *)
(***************************************************************************)
Init == RegistryInit /\ SetupInit(<< >>) /\ LevelsInit /\ ProcessInit(EmptyMap)

Next ==
  \/ \E t \in Threads, n \in Names, kw \in BoundFieldChoices : GetLoggerCall(t, n, kw)
  \/ \E t \in Threads : Check(t)
  \/ \E t \in Threads : Construct(t)
  \/ \E t \in Threads : Register(t)
  \/ \E t \in Threads : Read(t)
  \/ \E t \in Threads : \E a \in held[t] : Drop(t, a)
  \/ \E a \in AdapterIds : Reclaim(a)

Spec == Init /\ [][Next]_vars

(***************************************************************************)
(* getLogger calls made one after another: a call starts only when no      *)
(* other call is running.  Callers still drop references, and the runtime  *)
(* still reclaims, at any moment.                                          *)
(***************************************************************************)
NoCallRunning == \A u \in Threads : pc[u] = "idle"

SeqGetLoggerCall(t, n, kw) == NoCallRunning /\ GetLoggerCall(t, n, kw)

SeqNext ==
  \/ \E t \in Threads, n \in Names, kw \in BoundFieldChoices : SeqGetLoggerCall(t, n, kw)
  \/ \E t \in Threads : Check(t)
  \/ \E t \in Threads : Construct(t)
  \/ \E t \in Threads : Register(t)
  \/ \E t \in Threads : Read(t)
  \/ \E t \in Threads : \E a \in held[t] : Drop(t, a)
  \/ \E a \in AdapterIds : Reclaim(a)

SpecSeq == Init /\ [][SeqNext]_vars

(***************************************************************************)
(* setup called, once or repeatedly, on a root logger that starts with no  *)
(* handler or with handlers of the application's own.                      *)
(***************************************************************************)
InitSetup ==
  /\ RegistryInit /\ LevelsInit /\ ProcessInit(EmptyMap)
  /\ \E hs \in PreExistingHandlers : SetupInit(hs)

SetupNext ==
  \/ \E level \in SetupLevels, outputs \in SeqsUpTo(Outputs, MaxOutputs),
          program_name \in ProgramNames :
       SetupCall(level, outputs, program_name)
  \/ Bootstrap
  \/ InstallHook
  \/ SnapshotHandlers
  \/ RemoveNext
  \/ RemoveDone
  \/ AttachOk
  \/ AttachFail
  \/ SetLevel

SpecSetup == InitSetup /\ [][SetupNext]_vars

(***************************************************************************)
(* setup as above, and uncaught exceptions reaching sys.excepthook once a  *)
(* setup call has returned or raised.                                      *)
(***************************************************************************)
HookNext ==
  \/ \E level \in SetupLevels, outputs \in SeqsUpTo(Outputs, MaxOutputs),
          program_name \in ProgramNames :
       SetupCall(level, outputs, program_name)
  \/ Bootstrap
  \/ InstallHook
  \/ SnapshotHandlers
  \/ RemoveNext
  \/ RemoveDone
  \/ AttachOk
  \/ AttachFail
  \/ SetLevel
  \/ \E exc \in Exceptions : HookCall(exc)
  \/ HookCritical
  \/ HookCriticalRaises

SpecHook == InitSetup /\ [][HookNext]_vars

(***************************************************************************)
(* The level helpers called, once or repeatedly, with lists of up to       *)
(* MaxPairs entries.                                                       *)
(***************************************************************************)
LevelsNext ==
  \/ \E strings \in SeqsUpTo(StringPool, MaxPairs), sep \in Separators :
       ParseAndSetCall(strings, sep)
  \/ \E pairs \in SeqsUpTo(PairPool, MaxPairs) : SetLevelsCall(pairs)
  \/ LevelsStep
  \/ LevelsReturn

SpecLevels == Init /\ [][LevelsNext]_vars

(***************************************************************************)
(* process called, once or repeatedly, through an Adapter with any bound   *)
(* fields.                                                                 *)
(***************************************************************************)
InitProcess ==
  /\ RegistryInit /\ SetupInit(<< >>) /\ LevelsInit
  /\ \E bound \in Maps : ProcessInit(bound)

ProcessNext ==
  \/ \E msg \in Messages, kw \in KwargsChoices : ProcessCall(msg, kw)
  \/ ProcCopy
  \/ ProcPopExtra
  \/ ProcMove
  \/ ProcNest
  \/ ProcSetExtra
  \/ ProcReturn

SpecProcess == InitProcess /\ [][ProcessNext]_vars

(***************************************************************************)
(* Claims about the registry.                                              *)
(***************************************************************************)

\* C1: concurrent getLogger calls for the same name never make two distinct
\* Adapters externally visible: whatever callers hold for one name at the
\* same time is one and the same instance.
C1_OneVisibleAdapterPerName ==
  \A t \in Threads, u \in Threads :
    \A a \in held[t], b \in held[u] :
      heap[a].logger = heap[b].logger => a = b

\* C2: when a getLogger(N) call returns while some caller still holds the
\* Adapter an earlier getLogger(N) returned, it returns that same instance.
C2_SameInstanceWhileReferenced ==
  [][\A t \in Threads :
       (pc[t] = "read" /\ outcome'[t] = "returned") =>
         \A u \in Threads : \A a \in held[u] :
           heap[a].logger = callName[t] => ret'[t] = a]_vars

\* two callers hold the instance that the last call of one of them returned
C2_Witness ==
  \E t \in Threads, u \in Threads :
    /\ t # u
    /\ outcome[t] = "returned"
    /\ ret[t] \in held[t] \cap held[u]

\* C3: no getLogger call ends in a missing-key error.
C3_NoKeyError == \A t \in Threads : outcome[t] # "KeyError"

\* C4: the registry never keeps an Adapter alive.  An Adapter that no caller
\* and no running call refers to can be reclaimed; when it is reclaimed the
\* registry is left without an entry for its name; and a getLogger call that
\* finds no entry for its name constructs a new Adapter and registers it.
ExternallyReferenced(a) == \E t \in Threads : adapter[t] = a \/ a \in held[t]

C4_WeakRetention ==
  [][/\ \A a \in AdapterIds :
          /\ (heap[a].live /\ ~ExternallyReferenced(a)) => ENABLED Reclaim(a)
          /\ (heap[a].live /\ ~heap'[a].live) => loggers'[heap[a].logger] = NoAdapter
     /\ \A t \in Threads :
          /\ (pc[t] = "check" /\ pc'[t] # "check" /\ loggers[callName[t]] = NoAdapter)
                => pc'[t] = "construct"
          /\ (pc[t] = "construct" /\ pc'[t] # "construct")
                => /\ adapter'[t] \notin AdapterIds
                   /\ heap'[adapter'[t]] =
                        [logger |-> callName[t], extra |-> callKwargs[t], live |-> TRUE]
          /\ (pc[t] = "register" /\ pc'[t] # "register")
                => loggers'[callName[t]] = adapter[t]
    ]_vars

\* an Adapter was reclaimed and a later call returned a new one for its name
C4_Witness ==
  \E a \in AdapterIds, b \in AdapterIds, t \in Threads :
    /\ ~heap[a].live
    /\ heap[b].live
    /\ heap[b].logger = heap[a].logger
    /\ a < b
    /\ loggers[heap[a].logger] = b
    /\ ret[t] = b

(***************************************************************************)
(* Claims about setup.                                                     *)
(***************************************************************************)
OutputHandlers(outputs) == UNION {Range(HandlersOf(outputs[i])) : i \in 1..Len(outputs)}

\* C5: when setup has returned normally, whatever handlers the root logger
\* had on entry, its handlers are exactly those the given outputs install,
\* each once, and its threshold is the given level.
C5_ExactlyTheOutputs ==
  setupPc = "done" =>
    /\ Range(rootHandlers) = OutputHandlers(setupOutputs)
    /\ Cardinality(Range(rootHandlers)) = Len(rootHandlers)
    /\ FallbackHandler \notin Range(rootHandlers)
    /\ rootLevel = setupLevel

\* setup returned after two different outputs were attached to a root logger
\* that had no handler on entry, so that the fallback handler was installed
C5_Witness ==
  /\ setupPc = "done"
  /\ entryHandlers = << >>
  /\ Len(setupOutputs) = 2
  /\ setupOutputs[1] # setupOutputs[2]
  /\ setupLevel = 40

\* C6: when an output fails to attach, setup ends with that failure and the
\* root logger is not left with a subset of the outputs attached: it has
\* the handlers it had on entry, or none of the outputs' handlers.
C6_NoPartialConfiguration ==
  setupPc = "failed" =>
    \/ rootHandlers = entryHandlers
    \/ Range(rootHandlers) \cap OutputHandlers(setupOutputs) = {}

(***************************************************************************)
(* Claims about the level helpers.                                         *)
(***************************************************************************)
LacksSeparator(s, sep) ==
  \A i \in 1..Len(s) : SubSeq(s, i, i + Len(sep) - 1) # sep

LevelsCallOver == lvPc \in {"done", "failed"}

\* C7: parse_and_set_default_log_levels fails whenever one of its strings
\* lacks the separator, and then has set no logger's level at all.
C7_MalformedSetsNothing ==
  (LevelsCallOver /\ lvMode = "strings"
     /\ \E i \in 1..Len(lvInput) : LacksSeparator(lvInput[i], lvSep))
    => (lvPc = "failed" /\ loggerLevel = entryLevels)

\* a character and its upper-case form, told apart from str.upper
SameLetter(c, d) ==
  \/ c = d
  \/ c \in DOMAIN LowerToUpper /\ LowerToUpper[c] = d
  \/ d \in DOMAIN LowerToUpper /\ LowerToUpper[d] = c

SameIgnoringCase(s, t) ==
  Len(s) = Len(t) /\ \A i \in 1..Len(s) : SameLetter(s[i], t[i])

\* a level the spec calls valid: a number, or a level name in any case
ValidLevel(v) ==
  IF IsStr(v) THEN \E e \in LevelTable : SameIgnoringCase(v.str, e.name) ELSE TRUE

ThresholdOf(v) ==
  IF IsStr(v)
    THEN (CHOOSE e \in LevelTable : SameIgnoringCase(v.str, e.name)).level
    ELSE v.int

\* the positions of the pairs that name logger n
PairsNaming(n) == {i \in 1..Len(lvInput) : lvInput[i][1] = n}

LastPairNaming(n) == CHOOSE i \in PairsNaming(n) : \A j \in PairsNaming(n) : j <= i

\* C10: set_default_log_levels, given pairs whose levels are numbers or
\* level names in any case, returns normally and leaves each named logger
\* with the threshold of its (last) pair: the number itself for a numeric
\* level, the level the name stands for, whatever its case, for a textual
\* one.  Loggers that are not named keep their threshold.
C10_LevelsApplied ==
  (LevelsCallOver /\ lvMode = "pairs"
     /\ \A i \in 1..Len(lvInput) : ValidLevel(lvInput[i][2]))
    => /\ lvPc = "done"
       /\ \A n \in LoggerNames :
            loggerLevel[n] =
              IF PairsNaming(n) = {} THEN entryLevels[n]
              ELSE ThresholdOf(lvInput[LastPairNaming(n)][2])

\* a call given "debug" for one logger and a number for another has returned
C10_Witness ==
  /\ lvPc = "done"
  /\ lvMode = "pairs"
  /\ Len(lvInput) = 2
  /\ lvInput[1][2] = StrVal(<<"d", "e", "b", "u", "g">>)
  /\ lvInput[2][2] = IntVal(15)
  /\ loggerLevel = [n \in LoggerNames |-> IF n = <<"a">> THEN 10 ELSE 15]

(***************************************************************************)
(* Claims about process.                                                   *)
(***************************************************************************)
ProcessReturned == procPc = "returned"

\* the structured-field mapping of the returned keyword arguments
Merged == procRet.kwargs["extra"]

\* the caller's `extra` mapping, empty when the call gave none
CallerExtra ==
  IF "extra" \in DOMAIN entryKwargs THEN entryKwargs["extra"] ELSE EmptyMap

\* C8 (as stated): process returns msg unchanged, and every keyword other
\* than `extra` and `exc_info` is in the returned structured-field mapping
\* with the value the caller gave it.
C8_EveryKeywordKept ==
  ProcessReturned =>
    /\ procRet.msg = procMsg
    /\ \A k \in (DOMAIN entryKwargs) \ {"extra", "exc_info"} :
         k \in DOMAIN Merged /\ Merged[k] = entryKwargs[k]

\* C8 (amended): process returns msg unchanged, and every keyword other than
\* `extra` and `exc_info` is a key of the returned structured-field mapping,
\* with the value the caller gave it unless the key is `_daiquiri_extra`,
\* which holds the mapping itself.
C8_KeywordsKeptButPrivateKey ==
  ProcessReturned =>
    /\ procRet.msg = procMsg
    /\ \A k \in (DOMAIN entryKwargs) \ {"extra", "exc_info"} :
         /\ k \in DOMAIN Merged
         /\ Merged[k] = IF k = "_daiquiri_extra" THEN SelfRef ELSE entryKwargs[k]

\* a call with message m2, a field, exc_info and an `extra` mapping returned
C8_Witness ==
  /\ ProcessReturned
  /\ procMsg = "m2"
  /\ {"a", "exc_info", "extra"} \subseteq DOMAIN entryKwargs
  /\ "a" \in DOMAIN selfExtra
  /\ selfExtra["a"] # entryKwargs["a"]

\* the sources a key occurs in: bound fields, the caller's `extra`, keywords
Sources(k, keywords) ==
  {src \in {"bound", "extra", "keyword"} :
     \/ src = "bound" /\ k \in DOMAIN selfExtra
     \/ src = "extra" /\ k \in DOMAIN CallerExtra
     \/ src = "keyword" /\ k \in keywords}

\* the value of the source of highest precedence
Winner(k, keywords) ==
  IF k \in keywords THEN entryKwargs[k]
  ELSE IF k \in DOMAIN CallerExtra THEN CallerExtra[k]
  ELSE selfExtra[k]

\* C9 (as stated): a key that occurs in several of bound fields, the
\* caller's `extra` and the keywords other than `extra` has, in the merged
\* mapping, the value of the highest of them: bound < extra < keyword.
C9_Precedence ==
  ProcessReturned =>
    LET keywords == (DOMAIN entryKwargs) \ {"extra"}
    IN  \A k \in FieldKeys :
          Cardinality(Sources(k, keywords)) >= 2 =>
            k \in DOMAIN Merged /\ Merged[k] = Winner(k, keywords)

\* C9 (amended): the same for every key but `_daiquiri_extra`, the keywords
\* being those other than `extra` and `exc_info`.
C9_PrecedenceOfFields ==
  ProcessReturned =>
    LET keywords == (DOMAIN entryKwargs) \ {"extra", "exc_info"}
    IN  \A k \in FieldKeys \ {"_daiquiri_extra"} :
          Cardinality(Sources(k, keywords)) >= 2 =>
            k \in DOMAIN Merged /\ Merged[k] = Winner(k, keywords)

\* a call has returned for which field a is bound, in the caller's `extra`
\* with another value, and a keyword with a value other than that
C9_Witness ==
  /\ ProcessReturned
  /\ "a" \in DOMAIN selfExtra
  /\ "a" \in DOMAIN CallerExtra
  /\ "a" \in DOMAIN entryKwargs
  /\ selfExtra["a"] = "v1"
  /\ CallerExtra["a"] = "v2"
  /\ entryKwargs["a"] = "v1"

(***************************************************************************)
(* The exception hook and the steps of setup.                              *)
(***************************************************************************)
\* C11: once setup(program_name=P) has returned, sys.excepthook is the hook
\* setup installed, closed over P; and a call of the hook with an exception
\* that returns has logged exactly one record, at CRITICAL, through the
\* logger named P, its message the formatted exception.
C11_HookLogsOneCritical ==
  [][ /\ setupPc' = "done" =>
           excepthook' = "logging_excepthook" /\ hookProgram' = setupProgram'
      /\ (hookPc = "critical" /\ hookPc' = "returned" /\ hookProgram # None) =>
           emitted' = << [logger |-> hookProgram,
                          level |-> 50,
                          msg |-> FormatException(hookArg)] >> ]_vars

\* setup(program_name="prog") has returned and the hook, called with an
\* exception, has returned
C11_Witness ==
  /\ setupPc = "done"
  /\ setupProgram = "prog"
  /\ hookProgram = "prog"
  /\ hookPc = "returned"
  /\ Len(emitted) = 1

\* C12: from the bootstrap step of setup until the configured outputs are
\* attached, the root logger has at least one handler at every state.
C12_AlwaysAHandler ==
  setupPc \in {"hook", "reset", "remove", "attach"} => rootHandlers # << >>

\* C12 (amended): the root logger has at least one handler from the bootstrap
\* step until the removal loop has removed the last one, and none from then
\* until the first output is attached.
C12_HandlerUntilReset ==
  /\ setupPc \in {"hook", "reset"} => rootHandlers # << >>
  /\ (setupPc = "remove" /\ toRemove # << >>) => rootHandlers # << >>
  /\ (setupPc = "remove" /\ toRemove = << >>) => rootHandlers = << >>
  /\ (setupPc = "attach" /\ attachIdx = 1) => rootHandlers = << >>

\* setup, entered on a root logger without handlers, stands before the
\* removal loop with the fallback handler attached
C12_Witness ==
  /\ setupPc = "reset"
  /\ entryHandlers = << >>
  /\ rootHandlers = <<FallbackHandler>>

\* C13: the hook setup installs never raises: when logging the CRITICAL
\* record fails, the hook still returns normally.
C13_HookNeverRaises == hookPc # "raised"

(***************************************************************************)
(* process: its inputs, the returned keywords, the nested mapping.         *)
(***************************************************************************)
ProcessRunning == procPc \notin {"idle", "returned"}

ExcInfoField ==
  IF "exc_info" \in DOMAIN CallerExtra THEN <<CallerExtra["exc_info"]>>
  ELSE IF "exc_info" \in DOMAIN selfExtra THEN <<selfExtra["exc_info"]>>
  ELSE << >>

\* C15: the returned keywords are `extra`, and `exc_info` with its value
\* exactly when the caller supplied it, and no other; exc_info is never a key
\* of the structured-field mapping.
C15_ExcInfoNeverAField ==
  ProcessReturned =>
    /\ DOMAIN procRet.kwargs = {"extra"} \cup ((DOMAIN entryKwargs) \cap {"exc_info"})
    /\ "exc_info" \in DOMAIN entryKwargs =>
         procRet.kwargs["exc_info"] = entryKwargs["exc_info"]
    /\ "exc_info" \notin DOMAIN Merged

\* C15 (amended): the returned keywords are as stated, and a call-site
\* exc_info is never moved into the structured-field mapping: the mapping has
\* the key exc_info only when the bound fields or the caller's `extra` mapping
\* have it, with the value from there.
C15_ExcInfoKeywordPassesThrough ==
  ProcessReturned =>
    /\ DOMAIN procRet.kwargs = {"extra"} \cup ((DOMAIN entryKwargs) \cap {"exc_info"})
    /\ "exc_info" \in DOMAIN entryKwargs =>
         procRet.kwargs["exc_info"] = entryKwargs["exc_info"]
    /\ "exc_info" \in DOMAIN Merged <=> ExcInfoField # << >>
    /\ "exc_info" \in DOMAIN Merged => Merged["exc_info"] = ExcInfoField[1]

\* a call has returned that was given the keyword exc_info with one value
\* while the bound fields hold exc_info with another
C15_Witness ==
  /\ ProcessReturned
  /\ "exc_info" \in DOMAIN entryKwargs
  /\ "exc_info" \in DOMAIN selfExtra
  /\ "exc_info" \notin DOMAIN CallerExtra
  /\ entryKwargs["exc_info"] = "v2"
  /\ selfExtra["exc_info"] = "v1"

\* the mapping found under `_daiquiri_extra`: SelfRef stands for the merged
\* mapping itself
Nested ==
  IF Merged["_daiquiri_extra"] = SelfRef THEN Merged ELSE Merged["_daiquiri_extra"]

\* the keys of the structured fields: the bound ones, the caller's `extra`
\* mapping's and the keywords other than extra and exc_info
FieldsOf(keywords) == (DOMAIN selfExtra) \cup (DOMAIN CallerExtra) \cup keywords

\* C16: the mapping under `_daiquiri_extra` holds exactly the structured
\* fields: its keys are the bound keys, the keys of the caller's `extra` and
\* the keywords other than extra and exc_info, each with its merged value,
\* and nothing else.
C16_NestedIsExactlyTheFields ==
  ProcessReturned =>
    LET keywords == (DOMAIN entryKwargs) \ {"extra", "exc_info"}
    IN  /\ "_daiquiri_extra" \in DOMAIN Merged
        /\ DOMAIN Nested = FieldsOf(keywords)
        /\ \A k \in FieldsOf(keywords) : Nested[k] = Winner(k, keywords)

\* C16 (amended): the mapping under `_daiquiri_extra` is the merged mapping
\* itself: its keys are the structured fields' and `_daiquiri_extra`, every
\* key but `_daiquiri_extra` with its merged value.
C16_NestedIsTheMergedMapping ==
  ProcessReturned =>
    LET keywords == (DOMAIN entryKwargs) \ {"extra", "exc_info"}
    IN  /\ "_daiquiri_extra" \in DOMAIN Merged
        /\ Merged["_daiquiri_extra"] = SelfRef
        /\ DOMAIN Nested = FieldsOf(keywords) \cup {"_daiquiri_extra"}
        /\ \A k \in FieldsOf(keywords) \ {"_daiquiri_extra"} :
             Nested[k] = Winner(k, keywords)

\* a call has returned whose fields come from all three sources, the
\* caller's `extra` mapping holding a `_daiquiri_extra` of its own
C16_Witness ==
  /\ ProcessReturned
  /\ DOMAIN selfExtra = {"exc_info"}
  /\ DOMAIN CallerExtra = {"_daiquiri_extra"}
  /\ DOMAIN entryKwargs = {"extra", "a"}

(***************************************************************************)
(* The order of setup's steps, parsing of level strings, repeated setup,   *)
(* and the bound fields of registered Adapters.                            *)
(***************************************************************************)
\* the handlers the first n of the outputs install, in list order, a handler
\* already there not installed again
RECURSIVE HandlersOfFirst(_, _)
HandlersOfFirst(outputs, n) ==
  IF n = 0 THEN << >>
  ELSE LET before == HandlersOfFirst(outputs, n - 1)
       IN  before \o SelectSeq(HandlersOf(outputs[n]), LAMBDA h : h \notin Range(before))

SetupOrder ==
  {<<"idle", "bootstrap">>, <<"done", "bootstrap">>, <<"failed", "bootstrap">>,
   <<"bootstrap", "hook">>, <<"hook", "reset">>, <<"reset", "remove">>,
   <<"remove", "remove">>, <<"remove", "attach">>, <<"attach", "attach">>,
   <<"attach", "failed">>, <<"attach", "done">>}

\* C17: setup steps in the order bootstrap, hook install, reset, attach,
\* threshold: the hook is installed between bootstrap and reset, the outputs
\* are attached one at a time in list order, none before every earlier
\* handler is removed, and the threshold is set only when all are attached.
C17_StepsInOrder ==
  [][ /\ <<setupPc, setupPc'>> \in SetupOrder
      /\ (excepthook' # excepthook \/ hookProgram' # hookProgram) =>
           setupPc = "hook" /\ setupPc' = "reset"
      /\ (setupPc = "remove" /\ setupPc' = "attach") =>
           rootHandlers = << >> /\ attachIdx = 1
      /\ (setupPc = "attach" /\ setupPc' = "attach") =>
           /\ attachIdx' = attachIdx + 1
           /\ rootHandlers = HandlersOfFirst(setupOutputs, attachIdx - 1)
           /\ rootHandlers' = HandlersOfFirst(setupOutputs, attachIdx)
      /\ rootHandlers' # rootHandlers =>
           setupPc \in {"bootstrap", "remove", "attach"}
      /\ (rootLevel' # rootLevel \/ setupPc' = "done") =>
           /\ setupPc = "attach" /\ setupPc' = "done"
           /\ rootHandlers = HandlersOfFirst(setupOutputs, Len(setupOutputs))
           /\ rootLevel' = setupLevel ]_vars

\* setup has attached sinkB, then sinkA, on a root logger that had two
\* handlers of the application, and set the threshold
C17_Witness ==
  /\ setupPc = "done"
  /\ entryHandlers = <<"app1", "app2">>
  /\ setupOutputs = <<"sinkB", "sinkA">>
  /\ rootHandlers = <<"hB1", "hB2", "hA">>
  /\ rootLevel = setupLevel

\* the name and the level text of a string that has the separator: what is
\* before its first occurrence, and all that is after it
CutAtFirst(s, sep) ==
  LET i == CHOOSE i \in 1..Len(s) :
             /\ SubSeq(s, i, i + Len(sep) - 1) = sep
             /\ \A j \in 1..(i - 1) : SubSeq(s, j, j + Len(sep) - 1) # sep
  IN  <<SubSeq(s, 1, i - 1), StrVal(SubSeq(s, i + Len(sep), Len(s)))>>

\* how a level-configuration call ended
LevelsOutcome == [pc |-> lvPc, levels |-> loggerLevel, error |-> lvError]

\* C18: parse_and_set_default_log_levels cuts each string at the first
\* separator only, and for strings that all have the separator it does what
\* set_default_log_levels does for the list of their (name, level text)
\* pairs, in order.
C18_ParseIsSetOnPairs ==
  /\ (LevelsCallOver /\ lvMode = "strings"
        /\ \A i \in 1..Len(lvInput) : ~LacksSeparator(lvInput[i], lvSep)) =>
       LevelsOutcome =
         SetLevelsFrom(entryLevels,
                       [i \in 1..Len(lvInput) |-> CutAtFirst(lvInput[i], lvSep)], 1)
  /\ (LevelsCallOver /\ lvMode = "pairs") =>
       LevelsOutcome = SetLevelsFrom(entryLevels, lvInput, 1)

\* the call given "a=debug" and "a=b=INFO" has set logger a to DEBUG and
\* failed on the level text "B=INFO"
C18_Witness ==
  /\ lvPc = "failed"
  /\ lvMode = "strings"
  /\ lvSep = <<"=">>
  /\ lvInput = << <<"a", "=", "d", "e", "b", "u", "g">>,
                  <<"a", "=", "b", "=", "I", "N", "F", "O">> >>
  /\ loggerLevel[<<"a">>] = 10
  /\ lvError = UnknownLevel(<<"B", "=", "I", "N", "F", "O">>)

C20_BoundFieldsFixedAtCreation ==
  [][ /\ \A a \in AdapterIds :
           (heap[a].live /\ heap'[a].live) => heap'[a].extra = heap[a].extra
      /\ \A t \in Threads :
           (pc[t] = "construct" /\ pc'[t] = "register") =>
             /\ heap'[adapter'[t]].extra = callKwargs[t]
             /\ callKwargs[t] = EmptyMap => DOMAIN heap'[adapter'[t]].extra = {}
      /\ \A t \in Threads :
           (pc[t] = "read" /\ adapter[t] = NoAdapter /\ outcome'[t] = "returned") =>
             /\ heap[ret'[t]].live
             /\ heap[ret'[t]].logger = callName[t]
             /\ heap'[ret'[t]].extra = heap[ret'[t]].extra
             /\ \A u \in Threads : \A a \in held[u] :
                  heap[a].logger = callName[t] => ret'[t] = a ]_vars

\* a getLogger call that gives a bound field has found its name registered
\* to an Adapter created without kwargs, which another caller holds
C20_Witness ==
  \E t \in Threads, u \in Threads :
    /\ t # u
    /\ pc[t] = "read"
    /\ adapter[t] = NoAdapter
    /\ callKwargs[t] # EmptyMap
    /\ InLoggers(callName[t])
    /\ loggers[callName[t]] \in held[u]
    /\ heap[loggers[callName[t]]].extra = EmptyMap

=============================================================================
